---------------------------- MODULE Spec2Model ----------------------------
(***************************************************************************)
(* Conversation orchestration and streaming response pipeline of the      *)
(* nestjs-genai chat server: ChatGateway (socket handlers), ChatService   *)
(* (context store, windowing, fallback responder, pseudo-streaming) and   *)
(* BedrockService (model adapter).                                        *)
(*                                                                         *)
(* Node runs the handlers on one thread: a handler runs without           *)
(* interruption from one `await` that really suspends (a provider         *)
(* request, a provider frame, a timer) to the next.  Each action below is *)
(* one such run.  Text is a sequence of one-character strings, so that    *)
(* split, join, includes and concatenation are computed, not assumed.     *)
(***************************************************************************)
EXTENDS Integers, Sequences, FiniteSets, TLC

(***************************************************************************)
(* Bounds of the model.                                                    *)
(***************************************************************************)
MaxTurns == 2
MaxActive == 2
MaxFrames == 2
MaxSeqTurns == 6

(***************************************************************************)
(* Program constants.                                                      *)
(***************************************************************************)
maxContextMessages == 10
chunkSize == 3

Users == {"u1", "u2"}
Clients == {"c1"}
Slots == 1..MaxActive

(***************************************************************************)
(* Text.                                                                   *)
(***************************************************************************)
SP == " "

RECURSIVE IndexOfFrom(_, _, _)
IndexOfFrom(s, ch, k) ==
    IF k > Len(s) THEN 0
    ELSE IF s[k] = ch THEN k
    ELSE IndexOfFrom(s, ch, k + 1)

\* String.prototype.split(' ')
RECURSIVE split(_)
split(s) ==
    LET k == IndexOfFrom(s, SP, 1) IN
    IF k = 0 THEN <<s>>
    ELSE <<SubSeq(s, 1, k - 1)>> \o split(SubSeq(s, k + 1, Len(s)))

\* Array.prototype.join(' ')
RECURSIVE join(_)
join(ws) ==
    IF Len(ws) = 0 THEN <<>>
    ELSE IF Len(ws) = 1 THEN ws[1]
    ELSE ws[1] \o <<SP>> \o join(Tail(ws))

\* Array.prototype.slice(from, to) with 0-based, end-exclusive indices
slice(a, from, to) ==
    SubSeq(a, from + 1, IF to < Len(a) THEN to ELSE Len(a))

\* String.prototype.includes
includes(text, kw) ==
    \E k \in 1..(Len(text) - Len(kw) + 1) : SubSeq(text, k, k + Len(kw) - 1) = kw

UpperCase ==
    <<"A", "B", "C", "D", "E", "F", "G", "H", "I", "J", "K", "L", "M",
      "N", "O", "P", "Q", "R", "S", "T", "U", "V", "W", "X", "Y", "Z">>

LowerCase ==
    <<"a", "b", "c", "d", "e", "f", "g", "h", "i", "j", "k", "l", "m",
      "n", "o", "p", "q", "r", "s", "t", "u", "v", "w", "x", "y", "z">>

\* String.prototype.toLowerCase
toLowerCase(s) ==
    [k \in 1..Len(s) |->
        LET j == IndexOfFrom(UpperCase, s[k], 1) IN
        IF j = 0 THEN s[k] ELSE LowerCase[j]]

(***************************************************************************)
(* Fallback responder (ChatService.processMockResponse).                   *)
(***************************************************************************)
codeKeywords ==
    << <<"c", "o", "d", "e">>,
       <<"p", "r", "o", "g", "r", "a", "m", "m", "i", "n", "g">>,
       <<"f", "u", "n", "c", "t", "i", "o", "n">>,
       <<"c", "l", "a", "s", "s">>,
       <<"t", "y", "p", "e", "s", "c", "r", "i", "p", "t">>,
       <<"j", "a", "v", "a", "s", "c", "r", "i", "p", "t">>,
       <<"p", "y", "t", "h", "o", "n">>,
       <<"j", "a", "v", "a">>,
       <<"c", "+", "+">>,
       <<"c", "#">>,
       <<"g", "o">>,
       <<"r", "u", "s", "t">> >>

explanationKeywords ==
    << <<"e", "x", "p", "l", "a", "i", "n">>,
       <<"h", "o", "w">>,
       <<"w", "h", "a", "t">>,
       <<"w", "h", "y">>,
       <<"u", "n", "d", "e", "r", "s", "t", "a", "n", "d">>,
       <<"t", "u", "t", "o", "r", "i", "a", "l">>,
       <<"l", "e", "a", "r", "n">> >>

analysisKeywords ==
    << <<"a", "n", "a", "l", "y", "z", "e">>,
       <<"a", "n", "a", "l", "y", "s", "i", "s">>,
       <<"c", "o", "m", "p", "a", "r", "e">>,
       <<"e", "v", "a", "l", "u", "a", "t", "e">>,
       <<"a", "s", "s", "e", "s", "s", "m", "e", "n", "t">>,
       <<"r", "e", "v", "i", "e", "w">> >>

containsKeywords(text, keywords) ==
    \E k \in 1..Len(keywords) : includes(text, keywords[k])

\* The four templates are long literals in the source; each is cut here to
\* its heading, the words around ${input} and its last words.
\* "## Code h(\"${input}\"); is ready."
generateCodeResponse(input) ==
    <<"#", "#", " ", "C", "o", "d", "e", " ", "h", "(", "\"">> \o input
        \o <<"\"", ")", ";", " ", "i", "s", " ", "r", "e", "a", "d", "y", ".">>

\* "## Your Question explained here."  (the template does not use the input)
generateExplanationResponse(input) ==
    <<"#", "#", " ", "Y", "o", "u", "r", " ", "Q", "u", "e", "s", "t", "i", "o", "n",
      " ", "e", "x", "p", "l", "a", "i", "n", "e", "d", " ", "h", "e", "r", "e", ".">>

\* "## Analysis of **\"${input}\"** is made."
generateAnalysisResponse(input) ==
    <<"#", "#", " ", "A", "n", "a", "l", "y", "s", "i", "s", " ", "o", "f", " ",
      "*", "*", "\"">> \o input
        \o <<"\"", "*", "*", " ", "i", "s", " ", "m", "a", "d", "e", ".">>

\* "## Response to **\"${input}\"** is done."
generateGeneralResponse(input) ==
    <<"#", "#", " ", "R", "e", "s", "p", "o", "n", "s", "e", " ", "t", "o", " ",
      "*", "*", "\"">> \o input
        \o <<"\"", "*", "*", " ", "i", "s", " ", "d", "o", "n", "e", ".">>

\* processMockResponse testing the explanation keywords before the code keywords.
processMockResponseExplanationFirst(input) ==
    LET content == toLowerCase(input) IN
    IF containsKeywords(content, explanationKeywords)
        THEN generateExplanationResponse(input)
    ELSE IF containsKeywords(content, codeKeywords) THEN generateCodeResponse(input)
    ELSE IF containsKeywords(content, analysisKeywords)
        THEN generateAnalysisResponse(input)
    ELSE generateGeneralResponse(input)

\* The text processMockResponse resolves to once its delay has elapsed.
processMockResponse(input) ==
    LET content == toLowerCase(input) IN
    IF containsKeywords(content, codeKeywords) THEN generateCodeResponse(input)
    ELSE IF containsKeywords(content, explanationKeywords)
        THEN generateExplanationResponse(input)
    ELSE IF containsKeywords(content, analysisKeywords)
        THEN generateAnalysisResponse(input)
    ELSE generateGeneralResponse(input)

\* simulateStreaming's chunk without the trailing separator.
simulateChunkBare(words, i) == join(slice(words, i, i + chunkSize))

\* The chunk simulateStreaming emits at loop index i (0-based word index).
simulateChunk(words, i) ==
    join(slice(words, i, i + chunkSize))
        \o (IF i + chunkSize < Len(words) THEN <<SP>> ELSE <<>>)

(***************************************************************************)
(* Messages and the context store (ChatService).                          *)
(* A message carries, besides role and content, the number of the turn    *)
(* that appended it (0 for the system prompt): a history tag the program  *)
(* does not store, used only to state properties.                         *)
(***************************************************************************)
Msg(role, content, turn) == [role |-> role, content |-> content, turn |-> turn]

IsSystem(m) == m.role = "system"

IsNotSystem(m) == m.role # "system"

\* Array.prototype.slice(-n)
lastN(a, n) ==
    IF Len(a) <= n THEN a ELSE SubSeq(a, Len(a) - n + 1, Len(a))

\* maintainContextWindow keeping the first maxContextMessages, slice(0, n).
maintainContextWindowOldest(messages) ==
    IF Len(messages) > maxContextMessages
    THEN SelectSeq(messages, IsSystem)
            \o SubSeq(SelectSeq(messages, IsNotSystem), 1, maxContextMessages)
    ELSE messages

\* maintainContextWindow dropping the oldest message of a full list.
maintainContextWindowShift(messages) ==
    IF Len(SelectSeq(messages, IsNotSystem)) >= maxContextMessages
    THEN SelectSeq(messages, IsSystem) \o Tail(SelectSeq(messages, IsNotSystem))
    ELSE messages

\* The value of context.messages after maintainContextWindow(context).
maintainContextWindow(messages) ==
    IF Len(messages) > maxContextMessages
    THEN SelectSeq(messages, IsSystem)
            \o lastN(SelectSeq(messages, IsNotSystem), maxContextMessages)
    ELSE messages

\* The prompt literal, cut to its first sentence's first words.
systemPrompt ==
    <<"Y", "o", "u", " ", "a", "r", "e", " ", "a", " ", "h", "e", "l", "p", "f", "u", "l",
      " ", "A", "I">>

\* addSystemPrompt without the check for an existing system message.
addSystemPromptAlways(messages) == <<Msg("system", systemPrompt, 0)>> \o messages

\* addSystemPrompt putting the prompt after the messages.
addSystemPromptLast(messages) ==
    LET hasSystemMessage == \E k \in 1..Len(messages) : messages[k].role = "system" IN
    IF ~hasSystemMessage
    THEN messages \o <<Msg("system", systemPrompt, 0)>>
    ELSE messages

addSystemPrompt(messages) ==
    LET hasSystemMessage == \E k \in 1..Len(messages) : messages[k].role = "system" IN
    IF ~hasSystemMessage
    THEN <<Msg("system", systemPrompt, 0)>> \o messages
    ELSE messages

(***************************************************************************)
(* State.                                                                  *)
(***************************************************************************)
VARIABLES
    modelId,                \* BedrockService.modelId, a sequence of substrings
    useBedrockService,      \* ChatService.useBedrockService
    conversationContexts,   \* ChatService.conversationContexts: userId -> ChatContext
    connectedClients,       \* ChatGateway.connectedClients: socket id -> {userId?}
    sockets,                \* each socket: "new", "open" or "closed"
    turns,                  \* the handler invocations in progress or finished
    nextTurn,               \* number of handler invocations started so far
    now,                    \* Date.now(), in milliseconds since the gateway started
    lastCleanup,            \* the last call of cleanupOldContexts: its argument, the
                            \* time of the call and the map before and after it
    lastCall                \* the last call of a helper made on its own: its name,
                            \* its argument and what it returned

vars ==
    <<modelId, useBedrockService, conversationContexts, connectedClients, sockets,
      turns, nextTurn, now, lastCleanup, lastCall>>

\* Model identifiers, each a sequence of substrings; includes('anthropic.claude')
\* is membership of that substring.
ClaudeModel == <<"anthropic.claude", "-3-sonnet-20240229-v1:0">>
LlamaModel == <<"meta.llama", "2-70b-chat-v1">>
TitanModel == <<"amazon.titan", "-text-express-v1">>
OtherModel == <<"cohere.command-text-v14">>

ModelIds == {ClaudeModel, LlamaModel, TitanModel, OtherModel}

\* The configurations the model starts from: every model with the adapter
\* enabled, and the adapter disabled (the model identifier is then unused).
Configs ==
    [modelId : ModelIds, useBedrockService : {TRUE}]
        \cup [modelId : {ClaudeModel}, useBedrockService : {FALSE}]

modelIdIncludes(id, part) == \E k \in 1..Len(id) : id[k] = part

\* modelFamily testing the Llama substring before the Claude substring.
modelFamilyLlamaFirst(id) ==
    IF modelIdIncludes(id, "meta.llama") THEN "llama"
    ELSE IF modelIdIncludes(id, "anthropic.claude") THEN "claude"
    ELSE IF modelIdIncludes(id, "amazon.titan") THEN "titan"
    ELSE "unsupported"

\* The branch generateResponse takes (first match wins).
modelFamily(id) ==
    IF modelIdIncludes(id, "anthropic.claude") THEN "claude"
    ELSE IF modelIdIncludes(id, "meta.llama") THEN "llama"
    ELSE IF modelIdIncludes(id, "amazon.titan") THEN "titan"
    ELSE "unsupported"

\* The method of BedrockService that sends the provider request of a call of
\* generateResponse (streaming = FALSE) or generateStreamResponse, "none" when
\* the call throws `Unsupported model` before any request.
invokedMethod(id, streaming) ==
    LET family == modelFamily(id) IN
    IF streaming /\ family = "claude" THEN "invokeClaudeModelStream"
    ELSE IF family = "claude" THEN "invokeClaudeModel"
    ELSE IF family = "llama" THEN "invokeLlamaModel"
    ELSE IF family = "titan" THEN "invokeTitanModel"
    ELSE "none"

\* Inputs.
Contents == { <<"g", "o">>, <<"h", "i">> }
Replies == { <<"o", "k">> }
DeltaTexts == { <<"a">> }

\* Provider frames of a Claude stream.
Frames ==
    [type : {"content_block_delta"}, text : DeltaTexts \cup {<<>>}, bytes : {TRUE}]
        \cup [type : {"message_stop", "message_start"}, text : {<<>>}, bytes : {TRUE}]
        \cup [type : {"none"}, text : {<<>>}, bytes : {FALSE}]

\* processMockResponse(content) and the words simulateStreaming splits it
\* into, for each message text of the model.
mockResponseOf == [x \in Contents |-> processMockResponse(x)]

mockWordsOf == [x \in Contents |-> split(processMockResponse(x))]

IdleTurn ==
    [pc |-> "idle", id |-> 0, client |-> "none", userId |-> "none", content |-> <<>>,
     streaming |-> FALSE, ctx |-> 0, messagesWithSystem |-> <<>>,
     accumulatedResponse |-> <<>>, accumulatedContent |-> <<>>, failed |-> FALSE,
     frames |-> 0, words |-> <<>>, i |-> 0, events |-> <<>>, startedAt |-> 0,
     invoked |-> "none"]

\* Events a handler emits on its socket.
Typing(b) == [type |-> "typing", isTyping |-> b, content |-> <<>>, messageId |-> 0]

Response(text, id) ==
    [type |-> "response", isTyping |-> FALSE, content |-> text, messageId |-> id]

StreamStart(id) ==
    [type |-> "stream-start", isTyping |-> FALSE, content |-> <<>>, messageId |-> id]

StreamChunk(text, id) ==
    [type |-> "stream-chunk", isTyping |-> FALSE, content |-> text, messageId |-> id]

StreamEnd(id) ==
    [type |-> "stream-end", isTyping |-> FALSE, content |-> <<>>, messageId |-> id]

ErrorEvent(kind) ==
    [type |-> kind, isTyping |-> FALSE, content |-> <<>>, messageId |-> 0]

\* No helper called on its own yet.
NoCall == [op |-> "none", arg |-> <<>>, result |-> <<>>]

\* No call of cleanupOldContexts yet.
NoCleanup == [maxAgeHours |-> -1, at |-> -1, before |-> << >>, after |-> << >>]

Init ==
    /\ \E cfg \in Configs :
        /\ modelId = cfg.modelId
        /\ useBedrockService = cfg.useBedrockService
    /\ conversationContexts = << >>
    /\ connectedClients = << >>
    /\ sockets = [c \in Clients |-> "new"]
    /\ turns = [s \in Slots |-> IdleTurn]
    /\ nextTurn = 0
    /\ now = 0
    /\ lastCleanup = NoCleanup
    /\ lastCall = NoCall

(***************************************************************************)
(* Context store operations, on the value of the map.                      *)
(***************************************************************************)
MapDelete(m, k) == [x \in DOMAIN m \ {k} |-> m[x]]

MapSet(m, k, v) == [x \in DOMAIN m \cup {k} |-> IF x = k THEN v ELSE m[x]]

\* The map after getOrCreateContext(userId).  A context object is identified
\* by oid, the number of the turn that created it.
getOrCreateContext(m, userId, turn) ==
    IF userId \notin DOMAIN m
    THEN MapSet(m, userId,
                [userId |-> userId, messages |-> <<>>, lastActivity |-> now,
                 oid |-> turn])
    ELSE m

\* pushToContext putting the message in front of the list.
pushToContextFront(m, userId, oid, msg, touch) ==
    IF userId \in DOMAIN m /\ m[userId].oid = oid
    THEN [m EXCEPT ![userId].messages = <<msg>> \o @,
                   ![userId].lastActivity = IF touch THEN now ELSE @]
    ELSE m

\* The map after `context.messages.push(msg); context.lastActivity = new Date()`
\* (touch) or after the push alone, done through a reference to the context
\* object oid that a turn took earlier.  If that object is no longer in the map
\* (clearUserContext or cleanupOldContexts deleted its entry), the write goes
\* to an object no code reads again and the map is unchanged.
pushToContext(m, userId, oid, msg, touch) ==
    IF userId \in DOMAIN m /\ m[userId].oid = oid
    THEN [m EXCEPT ![userId].messages = Append(@, msg),
                   ![userId].lastActivity = IF touch THEN now ELSE @]
    ELSE m

\* appendUserMessage putting the user message in front (unshift for push).
appendUserMessageFirst(m, userId, content, turn) ==
    LET m1 == getOrCreateContext(m, userId, turn)
        pushed == <<Msg("user", content, turn)>> \o m1[userId].messages
    IN  [m1 EXCEPT ![userId].messages = maintainContextWindow(pushed)]

\* The first lines of processWithBedrock / processMessageStream: get or create
\* the context, push the user message, maintain the window.
appendUserMessage(m, userId, content, turn) ==
    LET m1 == getOrCreateContext(m, userId, turn)
        pushed == Append(m1[userId].messages, Msg("user", content, turn))
    IN  [m1 EXCEPT ![userId].messages = maintainContextWindow(pushed)]

\* clearUserContext emptying the context's message list and keeping the entry.
clearMessagesOnly(m, userId) ==
    IF userId \in DOMAIN m THEN [m EXCEPT ![userId].messages = <<>>] ELSE m

\* clearUserContext emptying the whole map (Map.clear instead of Map.delete).
clearEveryContext(m, userId) == << >>

clearUserContext(m, userId) == MapDelete(m, userId)

getUserContextInfo(m, userId) ==
    IF userId \in DOMAIN m
    THEN [messageCount |-> Len(m[userId].messages), lastActivity |-> m[userId].lastActivity]
    ELSE [messageCount |-> 0, lastActivity |-> -1]

(***************************************************************************)
(* Gateway and service handlers.                                           *)
(***************************************************************************)
Free(s) == turns[s].pc \in {"idle", "done"}

\* A new handler invocation takes the lowest slot not in use.
FreeSlot == CHOOSE s \in Slots : Free(s) /\ \A r \in Slots : Free(r) => s <= r

\* A message arrives on an open socket; the model runs it when a slot is free.
CanStart(client) ==
    /\ sockets[client] = "open"
    /\ \E s \in Slots : Free(s)

Emit(t, evs) == [t EXCEPT !.events = @ \o evs]

\* `clientInfo.userId = messageDto.userId` when the socket is registered.
noteUserId(cc, client, userId) ==
    IF client \in DOMAIN cc THEN [cc EXCEPT ![client].userId = userId] ELSE cc

handleConnection(client) ==
    /\ sockets[client] = "new"
    /\ sockets' = [sockets EXCEPT ![client] = "open"]
    /\ connectedClients' = MapSet(connectedClients, client, [userId |-> "none"])
    /\ UNCHANGED <<modelId, useBedrockService, conversationContexts, turns, nextTurn, now, lastCleanup, lastCall>>

handleDisconnect(client) ==
    /\ sockets[client] = "open"
    /\ sockets' = [sockets EXCEPT ![client] = "closed"]
    /\ connectedClients' = MapDelete(connectedClients, client)
    /\ UNCHANGED <<modelId, useBedrockService, conversationContexts, turns, nextTurn, now, lastCleanup, lastCall>>

\* The turn record of a handler that has run up to its first suspension:
\* processMessage -> processWithBedrock -> generateResponse -> send, or
\* processMessageStream -> generateStreamResponse -> send.  With the adapter
\* disabled the handler waits in processMockResponse's delay; an unsupported
\* model makes generateResponse throw before any request, which the catch of
\* processMessage / processMessageStream turns into the same delay.
startedTurn(client, userId, content, streaming, id, m) ==
    LET base == [IdleTurn EXCEPT !.id = id, !.client = client, !.userId = userId,
                                 !.content = content, !.streaming = streaming,
                                 !.startedAt = now,
                                 !.events = IF streaming
                                            THEN <<Typing(TRUE), StreamStart(id)>>
                                            ELSE <<Typing(TRUE)>>]
        family == modelFamily(modelId)
    IN  IF ~useBedrockService
        THEN [base EXCEPT !.pc = "mockDelay"]
        ELSE LET withCtx == [base EXCEPT !.ctx = m[userId].oid,
                                 !.messagesWithSystem = addSystemPrompt(m[userId].messages),
                                 !.invoked = invokedMethod(modelId, streaming)]
             IN  IF streaming /\ family = "claude"
                 THEN [withCtx EXCEPT !.pc = "awaitStreamOpen"]
                 ELSE IF family = "unsupported"
                 THEN [withCtx EXCEPT !.pc = "mockDelay", !.failed = TRUE]
                 ELSE [withCtx EXCEPT !.pc = "awaitGenerate"]

StartTurn(client, userId, content, streaming) ==
    LET id == nextTurn + 1
        m == IF useBedrockService
             THEN appendUserMessage(conversationContexts, userId, content, id)
             ELSE conversationContexts
    IN  /\ CanStart(client)
        /\ nextTurn' = id
        /\ connectedClients' = noteUserId(connectedClients, client, userId)
        /\ conversationContexts' = m
        /\ turns' = [turns EXCEPT ![FreeSlot] =
                        startedTurn(client, userId, content, streaming, id, m)]
        /\ UNCHANGED <<modelId, useBedrockService, sockets, now, lastCleanup, lastCall>>

\* @SubscribeMessage('message')
handleMessage(client, userId, content) ==
    /\ nextTurn < MaxTurns
    /\ StartTurn(client, userId, content, FALSE)

\* @SubscribeMessage('message-stream')
handleStreamMessage(client, userId, content) ==
    /\ nextTurn < MaxTurns
    /\ StartTurn(client, userId, content, TRUE)

\* The chunk callback processMessageStream passes to generateStreamResponse,
\* applied to one BedrockStreamChunk: the turn record and the map after it.
onStreamChunk(t, m, content, isComplete) ==
    IF ~isComplete
    THEN [turn |-> Emit([t EXCEPT !.accumulatedResponse = @ \o content],
                        <<StreamChunk(content, t.id)>>),
          map |-> m]
    ELSE [turn |-> t,
          map |-> pushToContext(m, t.userId, t.ctx,
                                Msg("assistant", t.accumulatedResponse, t.id), TRUE)]

\* handleStreamMessage after processMessageStream has returned.
finishStream(t) ==
    [Emit(t, <<StreamEnd(t.id), Typing(FALSE)>>) EXCEPT !.pc = "done"]

\* handleMessage after processMessage has returned `text`.
finishMessage(t, text) ==
    [Emit(t, <<Typing(FALSE), Response(text, t.id)>>) EXCEPT !.pc = "done"]

\* onAdapterError with the fallback left out: the error reaches the gateway's
\* catch, which stops the typing indicator and emits the error event.
onAdapterErrorRethrown(t) ==
    [Emit([t EXCEPT !.failed = TRUE],
          <<Typing(FALSE), ErrorEvent(IF t.streaming THEN "stream-error" ELSE "error")>>)
        EXCEPT !.pc = "done"]

\* onAdapterError with the handler ending at the failure, nothing emitted.
onAdapterErrorSilent(t) == [t EXCEPT !.failed = TRUE, !.pc = "done"]

\* The catch of processMessage / processMessageStream: fall back to the mock
\* response, which first waits for its delay.
onAdapterError(t) == [t EXCEPT !.failed = TRUE, !.pc = "mockDelay"]

\* bedrockClient.send of invokeClaudeModel / invokeLlamaModel / invokeTitanModel
\* resolves with `text`.
GenerateReturns(s, text) ==
    LET t == [turns[s] EXCEPT !.accumulatedContent = text] IN
    /\ turns[s].pc = "awaitGenerate"
    /\ IF t.streaming
       THEN LET r == onStreamChunk(t, conversationContexts, text, TRUE) IN
            /\ conversationContexts' = r.map
            /\ turns' = [turns EXCEPT ![s] = finishStream(r.turn)]
       ELSE /\ conversationContexts' =
                  pushToContext(conversationContexts, t.userId, t.ctx,
                                Msg("assistant", text, t.id), TRUE)
            /\ turns' = [turns EXCEPT ![s] = finishMessage(t, text)]
    /\ UNCHANGED <<modelId, useBedrockService, connectedClients, sockets, nextTurn, now, lastCleanup, lastCall>>

\* bedrockClient.send rejects, or the response cannot be decoded.
GenerateFails(s) ==
    /\ turns[s].pc = "awaitGenerate"
    /\ turns' = [turns EXCEPT ![s] = onAdapterError(turns[s])]
    /\ UNCHANGED <<modelId, useBedrockService, conversationContexts, connectedClients,
                   sockets, nextTurn, now, lastCleanup, lastCall>>

\* invokeClaudeModelStream: send resolves; without a body the call returns.
StreamOpens(s, hasBody) ==
    /\ turns[s].pc = "awaitStreamOpen"
    /\ turns' = [turns EXCEPT ![s] =
                    IF hasBody THEN [turns[s] EXCEPT !.pc = "streaming"]
                    ELSE finishStream(turns[s])]
    /\ UNCHANGED <<modelId, useBedrockService, conversationContexts, connectedClients,
                   sockets, nextTurn, now, lastCleanup, lastCall>>

\* invokeClaudeModelStream: one iteration of `for await (const chunk of body)`.
StreamFrame(s, f) ==
    LET t == [turns[s] EXCEPT !.frames = @ + 1]
        r == IF f.bytes /\ f.type = "content_block_delta" /\ f.text # <<>>
             THEN onStreamChunk([t EXCEPT !.accumulatedContent = @ \o f.text],
                                conversationContexts, f.text, FALSE)
             ELSE IF f.bytes /\ f.type = "message_stop"
             THEN onStreamChunk(t, conversationContexts, <<>>, TRUE)
             ELSE [turn |-> t, map |-> conversationContexts]
    IN  /\ turns[s].pc = "streaming"
        /\ turns[s].frames < MaxFrames
        /\ turns' = [turns EXCEPT ![s] = r.turn]
        /\ conversationContexts' = r.map
        /\ UNCHANGED <<modelId, useBedrockService, connectedClients, sockets, nextTurn, now, lastCleanup, lastCall>>

\* The body's iterator is exhausted: generateStreamResponse returns.
StreamEnds(s) ==
    /\ turns[s].pc = "streaming"
    /\ turns' = [turns EXCEPT ![s] = finishStream(turns[s])]
    /\ UNCHANGED <<modelId, useBedrockService, conversationContexts, connectedClients,
                   sockets, nextTurn, now, lastCleanup, lastCall>>

\* send rejects, the iterator throws or a frame cannot be parsed.
StreamFails(s) ==
    /\ turns[s].pc \in {"awaitStreamOpen", "streaming"}
    /\ turns' = [turns EXCEPT ![s] = onAdapterError(turns[s])]
    /\ UNCHANGED <<modelId, useBedrockService, conversationContexts, connectedClients,
                   sockets, nextTurn, now, lastCleanup, lastCall>>

\* MockResponds with a responder that consults the context store: the general
\* response whenever some context is stored.
MockRespondsFromStore(s) ==
    LET t == turns[s]
        text == IF conversationContexts = << >> THEN mockResponseOf[t.content]
                ELSE generateGeneralResponse(t.content)
        words == split(text)
    IN  /\ t.pc = "mockDelay"
        /\ turns' = [turns EXCEPT ![s] =
                        IF t.streaming
                        THEN Emit([t EXCEPT !.pc = "simulateStreaming",
                                            !.words = words, !.i = 0],
                                  <<StreamChunk(simulateChunk(words, 0), t.id)>>)
                        ELSE finishMessage(t, text)]
        /\ UNCHANGED <<modelId, useBedrockService, conversationContexts, connectedClients,
                       sockets, nextTurn, now, lastCleanup, lastCall>>

\* processMockResponse's delay elapses.  A non-streaming turn returns the text;
\* a streaming turn enters simulateStreaming, which emits its first chunk and
\* waits.
MockResponds(s) ==
    LET t == turns[s]
        text == mockResponseOf[t.content]
        words == mockWordsOf[t.content]
    IN  /\ t.pc = "mockDelay"
        /\ turns' = [turns EXCEPT ![s] =
                        IF t.streaming
                        THEN Emit([t EXCEPT !.pc = "simulateStreaming",
                                            !.words = words, !.i = 0],
                                  <<StreamChunk(simulateChunk(words, 0), t.id)>>)
                        ELSE finishMessage(t, text)]
        /\ UNCHANGED <<modelId, useBedrockService, conversationContexts, connectedClients,
                       sockets, nextTurn, now, lastCleanup, lastCall>>

\* simulateStreaming: the delay after a chunk elapses; the loop emits the next
\* chunk or ends, and then processMessageStream returns.
SimulateStreamingStep(s) ==
    LET t == turns[s]
        i == t.i + chunkSize
    IN  /\ t.pc = "simulateStreaming"
        /\ turns' = [turns EXCEPT ![s] =
                        IF i < Len(t.words)
                        THEN Emit([t EXCEPT !.i = i],
                                  <<StreamChunk(simulateChunk(t.words, i), t.id)>>)
                        ELSE finishStream(t)]
        /\ UNCHANGED <<modelId, useBedrockService, conversationContexts, connectedClients,
                       sockets, nextTurn, now, lastCleanup, lastCall>>

\* @SubscribeMessage('clear-context')
handleClearContext(client, userId) ==
    /\ sockets[client] = "open"
    /\ conversationContexts' = clearUserContext(conversationContexts, userId)
    /\ UNCHANGED <<modelId, useBedrockService, connectedClients, sockets, turns,
                   nextTurn, now, lastCleanup, lastCall>>

Next ==
    \/ \E c \in Clients : handleConnection(c)
    \/ \E c \in Clients : handleDisconnect(c)
    \/ \E c \in Clients, u \in Users, x \in Contents : handleMessage(c, u, x)
    \/ \E c \in Clients, u \in Users, x \in Contents : handleStreamMessage(c, u, x)
    \/ \E s \in Slots, r \in Replies : GenerateReturns(s, r)
    \/ \E s \in Slots : GenerateFails(s)
    \/ \E s \in Slots, b \in BOOLEAN : StreamOpens(s, b)
    \/ \E s \in Slots, f \in Frames : StreamFrame(s, f)
    \/ \E s \in Slots : StreamEnds(s)
    \/ \E s \in Slots : StreamFails(s)
    \/ \E s \in Slots : MockResponds(s)
    \/ \E s \in Slots : SimulateStreamingStep(s)
    \/ \E c \in Clients, u \in Users : handleClearContext(c, u)

Spec == Init /\ [][Next]_vars

\* A pending provider request or stream of the turn in slot s resolves, rejects
\* or delivers its next frame.
AdapterStep(s) ==
    \/ \E r \in Replies : GenerateReturns(s, r)
    \/ GenerateFails(s)
    \/ \E b \in BOOLEAN : StreamOpens(s, b)
    \/ \E f \in Frames : StreamFrame(s, f)
    \/ StreamEnds(s)
    \/ StreamFails(s)

\* A pending timer of the turn in slot s (the mock delay, the delay between
\* simulated chunks) expires.
TimerStep(s) == MockResponds(s) \/ SimulateStreamingStep(s)

\* The handlers with one user and one message text, so that the behaviours can
\* be checked to their end.
NextLive ==
    \/ \E c \in Clients : handleConnection(c)
    \/ \E c \in Clients : handleDisconnect(c)
    \/ \E c \in Clients : handleMessage(c, "u1", <<"h", "i">>)
    \/ \E c \in Clients : handleStreamMessage(c, "u1", <<"h", "i">>)
    \/ \E s \in Slots : AdapterStep(s)
    \/ \E s \in Slots : TimerStep(s)
    \/ \E c \in Clients : handleClearContext(c, "u1")

\* Model identifiers that hold up to MaxModelIdParts of the substrings the
\* adapter looks for, in any order, or another provider's name.
MaxModelIdParts == 2

ModelIdParts == {"anthropic.claude", "meta.llama", "amazon.titan", "cohere.command"}

DispatchModelIds == UNION {[1..n -> ModelIdParts] : n \in 1..MaxModelIdParts}

\* The gateway started with the adapter enabled and any of these identifiers.
InitDispatch ==
    /\ modelId \in DispatchModelIds
    /\ useBedrockService = TRUE
    /\ conversationContexts = << >>
    /\ connectedClients = << >>
    /\ sockets = [c \in Clients |-> "new"]
    /\ turns = [s \in Slots |-> IdleTurn]
    /\ nextTurn = 0
    /\ now = 0
    /\ lastCleanup = NoCleanup
    /\ lastCall = NoCall

SpecDispatch == InitDispatch /\ [][NextLive]_vars

\* Every adapter call eventually returns or fails, and every timer expires.
FairSpec ==
    /\ Init
    /\ [][NextLive]_vars
    /\ \A s \in Slots : WF_vars(AdapterStep(s)) /\ WF_vars(TimerStep(s))

(***************************************************************************)
(* A second specification: one user sends non-streaming messages one after *)
(* the other, each after the previous turn has finished.  Every behaviour  *)
(* of it is a behaviour of the program; it runs long enough for the        *)
(* context window to fill.                                                 *)
(***************************************************************************)
SeqUser == "u1"

SeqContent == <<"h", "i">>

SeqMessage(client) ==
    /\ nextTurn < MaxSeqTurns
    /\ \A s \in Slots : Free(s)
    /\ StartTurn(client, SeqUser, SeqContent, FALSE)

NextSequential ==
    \/ \E c \in Clients : handleConnection(c)
    \/ \E c \in Clients : SeqMessage(c)
    \/ \E s \in Slots, r \in Replies : GenerateReturns(s, r)
    \/ \E s \in Slots : GenerateFails(s)
    \/ \E s \in Slots : MockResponds(s)

SpecSequential == Init /\ [][NextSequential]_vars

(***************************************************************************)
(* The context sweep.  Date.now() and lastActivity are in milliseconds.    *)
(***************************************************************************)
msPerHour == 60 * 60 * 1000

\* The loop of cleanupOldContexts over the entries not yet visited.
RECURSIVE cleanupEntries(_, _, _)
cleanupEntries(m, entries, cutoffTime) ==
    IF entries = {}
    THEN m
    ELSE LET userId == CHOOSE u \in entries : TRUE
             context == m[userId]
         IN  cleanupEntries(IF context.lastActivity < cutoffTime
                            THEN MapDelete(m, userId)
                            ELSE m,
                            entries \ {userId}, cutoffTime)

\* cleanupOldContexts with the maximum age taken as milliseconds.
cleanupOldContextsMillis(m, maxAgeHours, dateNow) ==
    cleanupEntries(m, DOMAIN m, dateNow - maxAgeHours)

\* The map after cleanupOldContexts(maxAgeHours) called at time dateNow.
cleanupOldContexts(m, maxAgeHours, dateNow) ==
    LET cutoffTime == dateNow - maxAgeHours * msPerHour
    IN  cleanupEntries(m, DOMAIN m, cutoffTime)

\* What a call of cleanupOldContexts did.
cleanupRecord(m, maxAgeHours, dateNow) ==
    [maxAgeHours |-> maxAgeHours, at |-> dateNow, before |-> m,
     after |-> cleanupOldContexts(m, maxAgeHours, dateNow)]

(***************************************************************************)
(* A third specification: the gateway with its sweeper.  afterInit starts  *)
(* an interval timer at time 0 that calls cleanupOldContexts(24) every     *)
(* hour.  Time is observed at the ticks: a handler that runs between two   *)
(* ticks reads the time of the earlier one, which decides                  *)
(* `lastActivity < cutoffTime` at every later tick as the exact time       *)
(* would.  One user sends non-streaming messages, each after the previous  *)
(* turn has finished.                                                      *)
(***************************************************************************)
MaxTicks == 26

MaxSweepTurns == 2

cleanupMaxAgeHours == 24

cleanupIntervalHours == 1

\* The interval elapsing with a callback that does nothing.
startContextCleanupIdle ==
    /\ now < MaxTicks * msPerHour
    /\ now' = now + cleanupIntervalHours * msPerHour
    /\ UNCHANGED <<modelId, useBedrockService, conversationContexts, connectedClients,
                   sockets, turns, nextTurn, lastCleanup, lastCall>>

\* The interval callback of startContextCleanup.
startContextCleanup ==
    LET tick == now + cleanupIntervalHours * msPerHour
        call == cleanupRecord(conversationContexts, cleanupMaxAgeHours, tick)
    IN  /\ now < MaxTicks * msPerHour
        /\ now' = tick
        /\ conversationContexts' = call.after
        /\ lastCleanup' = call
        /\ UNCHANGED <<modelId, useBedrockService, connectedClients, sockets, turns,
                       nextTurn, lastCall>>

SweepMessage(client) ==
    /\ nextTurn < MaxSweepTurns
    /\ \A s \in Slots : Free(s)
    /\ StartTurn(client, SeqUser, SeqContent, FALSE)

NextSweep ==
    \/ \E c \in Clients : handleConnection(c)
    \/ \E c \in Clients : SweepMessage(c)
    \/ \E s \in Slots, r \in Replies : GenerateReturns(s, r)
    \/ \E s \in Slots : GenerateFails(s)
    \/ \E s \in Slots : MockResponds(s)
    \/ startContextCleanup

SpecSweep == Init /\ [][NextSweep]_vars

\* The timer fires whenever an interval has elapsed.
FairSweep == SpecSweep /\ WF_vars(startContextCleanup)

(***************************************************************************)
(* A fourth specification: cleanupOldContexts called with any maximum age  *)
(* at any time, between turns of two users.  Time passes in steps of one   *)
(* millisecond and of one hour.                                            *)
(***************************************************************************)
MaxMillis == 1

MaxHours == 2

MaxCleanupTurns == 2

CleanupHours == {0, 1, 24}

TimeSteps == {1, msPerHour}

TimePasses(d) ==
    /\ IF d = 1 THEN now % msPerHour < MaxMillis ELSE now \div msPerHour < MaxHours
    /\ now' = now + d
    /\ UNCHANGED <<modelId, useBedrockService, conversationContexts, connectedClients,
                   sockets, turns, nextTurn, lastCleanup, lastCall>>

CleanupMessage(client, userId) ==
    /\ nextTurn < MaxCleanupTurns
    /\ StartTurn(client, userId, SeqContent, FALSE)

\* ChatService.cleanupOldContexts(maxAgeHours), called now.
cleanupCall(maxAgeHours) ==
    LET call == cleanupRecord(conversationContexts, maxAgeHours, now)
    IN  /\ conversationContexts' = call.after
        /\ lastCleanup' = call
        /\ UNCHANGED <<modelId, useBedrockService, connectedClients, sockets, turns,
                       nextTurn, now, lastCall>>

NextCleanup ==
    \/ \E c \in Clients : handleConnection(c)
    \/ \E c \in Clients, u \in Users : CleanupMessage(c, u)
    \/ \E s \in Slots, r \in Replies : GenerateReturns(s, r)
    \/ \E s \in Slots : GenerateFails(s)
    \/ \E s \in Slots : MockResponds(s)
    \/ \E d \in TimeSteps : TimePasses(d)
    \/ \E h \in CleanupHours : cleanupCall(h)

SpecCleanup == Init /\ [][NextCleanup]_vars

(***************************************************************************)
(* A fifth specification: the handlers with one user, streaming and not,   *)
(* while hours pass between their steps.                                   *)
(***************************************************************************)
NextClock ==
    \/ NextLive
    \/ TimePasses(msPerHour)

SpecClock == Init /\ [][NextClock]_vars

(***************************************************************************)
(* A sixth specification: the helpers of ChatService called on their own,  *)
(* each on every argument of a bounded set.  Message lists are the ones a  *)
(* context can hold: user and assistant messages in any order, with or     *)
(* without a system message in front.  The messages of a list are tagged   *)
(* with their positions.                                                   *)
(***************************************************************************)
MaxListLen == 12

MaxWords == 7

MaxMockWords == 3

programVars ==
    <<modelId, useBedrockService, conversationContexts, connectedClients, sockets,
      turns, nextTurn, now, lastCleanup>>

StoredRoles == {"user", "assistant"}

\* The list with the given roles, after a system message if withSystem.
MessageList(roles, withSystem) ==
    (IF withSystem THEN <<Msg("system", systemPrompt, 0)>> ELSE <<>>)
        \o [k \in 1..Len(roles) |-> Msg(roles[k], <<>>, k)]

RoleLists == UNION {[1..n -> StoredRoles] : n \in 0..MaxListLen}

\* Texts: up to MaxWords words joined by single spaces; an empty word makes two
\* spaces in a row, or a space at an end.
StreamWords == {<<>>, <<"a">>, <<"b", "c">>}

AlphaBetaGammaDelta ==
    <<"a", "l", "p", "h", "a", " ", "b", "e", "t", "a", " ",
      "g", "a", "m", "m", "a", " ", "d", "e", "l", "t", "a">>

StreamTexts ==
    {join(ws) : ws \in UNION {[1..n -> StreamWords] : n \in 1..MaxWords}}
        \cup {AlphaBetaGammaDelta}

\* Texts for the fallback responder: up to MaxMockWords words, each a code
\* keyword, an explanation keyword, an analysis keyword or none, in either case.
MockWords ==
    {<<"g", "o">>, <<"R", "u", "s", "t">>, <<"h", "o", "w">>, <<"W", "H", "Y">>,
     <<"r", "e", "v", "i", "e", "w">>, <<"h", "i">>}

MockTexts ==
    {join(ws) : ws \in UNION {[1..n -> MockWords] : n \in 1..MaxMockWords}}

\* The chunks simulateStreaming passes to onChunk, from word i on.
RECURSIVE simulateStreamingFrom(_, _)
simulateStreamingFrom(words, i) ==
    IF i < Len(words)
    THEN <<simulateChunk(words, i)>> \o simulateStreamingFrom(words, i + chunkSize)
    ELSE <<>>

simulateStreaming(text) == simulateStreamingFrom(split(text), 0)

Returns(op, arg, result) ==
    /\ lastCall' = [op |-> op, arg |-> arg, result |-> result]
    /\ UNCHANGED programVars

callAddSystemPrompt(messages) ==
    Returns("addSystemPrompt", messages, addSystemPrompt(messages))

callMaintainContextWindow(messages) ==
    Returns("maintainContextWindow", messages, maintainContextWindow(messages))

callSimulateStreaming(text) ==
    Returns("simulateStreaming", text, simulateStreaming(text))

callProcessMockResponse(content) ==
    Returns("processMockResponse", content, processMockResponse(content))

\* Frame sequences of a Claude response stream, up to MaxStreamFrames frames.
MaxStreamFrames == 3

FrameSeqs == UNION {[1..n -> Frames] : n \in 0..MaxStreamFrames}

\* A BedrockStreamChunk, without its usage totals.
BedrockStreamChunk(content, isComplete) ==
    [content |-> content, isComplete |-> isComplete]

\* The chunks one iteration of the for-await loop of invokeClaudeModelStream
\* passes to onChunk; `chunkData.delta?.text` is falsy for an empty text.
frameChunks(f) ==
    IF ~f.bytes THEN <<>>
    ELSE IF f.type = "content_block_delta" /\ f.text # <<>>
    THEN <<BedrockStreamChunk(f.text, FALSE)>>
    ELSE IF f.type = "message_stop"
    THEN <<BedrockStreamChunk(<<>>, TRUE)>>
    ELSE <<>>

\* The chunks invokeClaudeModelStream passes to onChunk over the whole body.
RECURSIVE invokeClaudeModelStream(_)
invokeClaudeModelStream(frames) ==
    IF Len(frames) = 0 THEN <<>>
    ELSE frameChunks(Head(frames)) \o invokeClaudeModelStream(Tail(frames))

callInvokeClaudeModelStream(frames) ==
    Returns("invokeClaudeModelStream", frames, invokeClaudeModelStream(frames))

\* Message lists for the request builders: up to MaxPromptLen user and
\* assistant messages with short texts, after the system prompt or without it.
MaxPromptLen == 4

PromptContents == {<<"a">>, <<"b", "c">>}

PromptList(roles, contents, withSystem) ==
    (IF withSystem THEN <<Msg("system", systemPrompt, 0)>> ELSE <<>>)
        \o [k \in 1..Len(roles) |-> Msg(roles[k], contents[k], k)]

\* requestBody.messages and requestBody.system of invokeClaudeModel and
\* invokeClaudeModelStream; `system` is the empty sequence when the field is
\* not set and holds the one text when it is.
claudeRequestWithSystemInline(messages) ==
    [messages |-> [k \in 1..Len(messages) |->
                      [role |-> messages[k].role, content |-> messages[k].content]],
     system |-> IF SelectSeq(messages, IsSystem) # <<>>
                THEN <<SelectSeq(messages, IsSystem)[1].content>>
                ELSE <<>>]

claudeRequest(messages) ==
    LET conversationMessages == SelectSeq(messages, IsNotSystem)
        systemMessages == SelectSeq(messages, IsSystem)
    IN  [messages |-> [k \in 1..Len(conversationMessages) |->
                          [role |-> conversationMessages[k].role,
                           content |-> conversationMessages[k].content]],
         system |-> IF systemMessages # <<>> THEN <<systemMessages[1].content>>
                    ELSE <<>>]

\* formatLlamaPrompt: `[INST] ${content} [/INST]` for a user message and
\* ` ${content}` for any other.
InstOpen == <<"[", "I", "N", "S", "T", "]", " ">>

InstClose == <<" ", "[", "/", "I", "N", "S", "T", "]">>

RECURSIVE formatLlamaPrompt(_)
formatLlamaPrompt(messages) ==
    IF Len(messages) = 0 THEN <<>>
    ELSE (IF Head(messages).role = "user"
          THEN InstOpen \o Head(messages).content \o InstClose
          ELSE <<SP>> \o Head(messages).content)
             \o formatLlamaPrompt(Tail(messages))

\* formatTitanPrompt: `Human: ${content}` for a user message and
\* `Assistant: ${content}` for any other, joined by '\n\n', then
\* '\n\nAssistant:'.
HumanPrefix == <<"H", "u", "m", "a", "n", ":", " ">>

AssistantCue == <<"A", "s", "s", "i", "s", "t", "a", "n", "t", ":">>

BlankLine == <<"\n", "\n">>

titanEntry(msg) ==
    IF msg.role = "user" THEN HumanPrefix \o msg.content
    ELSE AssistantCue \o <<SP>> \o msg.content

RECURSIVE joinBlankLine(_)
joinBlankLine(entries) ==
    IF Len(entries) = 0 THEN <<>>
    ELSE IF Len(entries) = 1 THEN entries[1]
    ELSE entries[1] \o BlankLine \o joinBlankLine(Tail(entries))

formatTitanPrompt(messages) ==
    joinBlankLine([k \in 1..Len(messages) |-> titanEntry(messages[k])])
        \o BlankLine \o AssistantCue

callClaudeRequest(method, messages) ==
    Returns(method, messages, claudeRequest(messages))

callFormatLlamaPrompt(messages) ==
    Returns("formatLlamaPrompt", messages, formatLlamaPrompt(messages))

callFormatTitanPrompt(messages) ==
    Returns("formatTitanPrompt", messages, formatTitanPrompt(messages))

\* One of the request builders applied to one of the message lists.
callRequestBuilder(messages) ==
    \/ callClaudeRequest("invokeClaudeModel", messages)
    \/ callClaudeRequest("invokeClaudeModelStream:requestBody", messages)
    \/ callFormatLlamaPrompt(messages)
    \/ callFormatTitanPrompt(messages)

NextHelpers ==
    /\ lastCall = NoCall
    /\ \/ \E r \in RoleLists, b \in BOOLEAN : callAddSystemPrompt(MessageList(r, b))
       \/ \E r \in RoleLists, b \in BOOLEAN :
              callMaintainContextWindow(MessageList(r, b))
       \/ \E x \in StreamTexts : callSimulateStreaming(x)
       \/ \E x \in MockTexts : callProcessMockResponse(x)
       \/ \E fs \in FrameSeqs : callInvokeClaudeModelStream(fs)
       \/ \E n \in 0..MaxPromptLen :
              \E r \in [1..n -> StoredRoles], c \in [1..n -> PromptContents],
                 b \in BOOLEAN : callRequestBuilder(PromptList(r, c, b))

SpecHelpers == Init /\ [][NextHelpers]_vars

(***************************************************************************)
(* A fifth specification: the gateway's ValidationPipe in front of the     *)
(* 'message' and 'message-stream' handlers.  The pipe validates the        *)
(* payload against MessageDto before the handler runs and throws when a    *)
(* constraint fails, so the handler body is not entered.                   *)
(***************************************************************************)
maxContentLength == 5000

\* class-validator's @IsNotEmpty and @MaxLength on a text; a user id is one
\* string, not empty when it is not "".
IsNotEmpty(value) == value # <<>>

MaxLength(value, max) == Len(value) <= max

\* MessageDto with only @IsNotEmpty on content.
validateMessageDtoNoLimit(userId, content) ==
    IsNotEmpty(content) /\ userId # ""

\* The constraints of MessageDto hold of the payload.
validateMessageDto(userId, content) ==
    /\ IsNotEmpty(content)
    /\ MaxLength(content, maxContentLength)
    /\ userId # ""

\* Payload contents: empty, a short text, and one character over the limit.
LongContent == [k \in 1..(maxContentLength + 1) |-> "x"]

ValidationContents == {<<>>, <<"h", "i">>, LongContent}

ValidationUsers == {"u1"}

\* The pipe throws: the handler is not called.
pipeRejects(client, content) ==
    /\ sockets[client] = "open"
    /\ Returns("ValidationPipe", content, <<"exception">>)

\* A 'message' or 'message-stream' event arrives on the socket.
receiveMessage(client, userId, content, streaming) ==
    IF validateMessageDto(userId, content)
    THEN IF streaming THEN handleStreamMessage(client, userId, content)
         ELSE handleMessage(client, userId, content)
    ELSE pipeRejects(client, content)

NextValidation ==
    \/ \E c \in Clients : handleConnection(c)
    \/ \E c \in Clients : handleDisconnect(c)
    \/ \E c \in Clients, u \in ValidationUsers, x \in ValidationContents,
          b \in BOOLEAN : receiveMessage(c, u, x, b)
    \/ \E s \in Slots : AdapterStep(s)
    \/ \E s \in Slots : TimerStep(s)
    \/ \E c \in Clients, u \in ValidationUsers : handleClearContext(c, u)

SpecValidation == Init /\ [][NextValidation]_vars

(***************************************************************************)
(* Definitions the properties share.                                       *)
(***************************************************************************)
Active(s) == turns[s].pc \notin {"idle", "done"}

\* The turn waits for the adapter: a provider request or frame is pending.
AwaitsAdapter(s) == turns[s].pc \in {"awaitGenerate", "awaitStreamOpen", "streaming"}

NonSystem(msgs) == SelectSeq(msgs, IsNotSystem)

IsChunk(e) == e.type = "stream-chunk"

ChunksOf(events) == SelectSeq(events, IsChunk)

RECURSIVE ConcatContents(_)
ConcatContents(events) ==
    IF Len(events) = 0 THEN <<>>
    ELSE Head(events).content \o ConcatContents(Tail(events))

\* Some stored context holds an assistant message appended by turn `id`.
HasAssistantOf(id) ==
    \E u \in DOMAIN conversationContexts :
        \E k \in 1..Len(conversationContexts[u].messages) :
            /\ conversationContexts[u].messages[k].role = "assistant"
            /\ conversationContexts[u].messages[k].turn = id

\* This step appends an assistant message of the turn in slot s to the stored
\* context of the turn's user.
AppendsAssistant(s) ==
    LET u == turns[s].userId IN
    /\ u \in DOMAIN conversationContexts
    /\ u \in DOMAIN conversationContexts'
    /\ Len(conversationContexts'[u].messages) = Len(conversationContexts[u].messages) + 1
    /\ LET m == conversationContexts'[u].messages[Len(conversationContexts'[u].messages)]
       IN  m.role = "assistant" /\ m.turn = turns[s].id

(***************************************************************************)
(* C1.  Every stored conversation context holds at most                    *)
(* maxContextMessages (10) non-system messages, in every reachable state.  *)
(* The code trims only after the user message is pushed, so the assistant  *)
(* reply of the sixth turn is the eleventh message.                        *)
(***************************************************************************)
C1_WindowNeverExceeded ==
    \A u \in DOMAIN conversationContexts :
        Len(NonSystem(conversationContexts[u].messages)) <= maxContextMessages

(***************************************************************************)
(* C2.  At most one turn per user id waits for the adapter at a time: a    *)
(* second call for the same user neither appends nor invokes the adapter   *)
(* while the first is in progress.                                         *)
(***************************************************************************)
C2_OneActiveTurnPerUser ==
    \A s1, s2 \in Slots :
        (s1 # s2 /\ AwaitsAdapter(s1) /\ AwaitsAdapter(s2))
            => turns[s1].userId # turns[s2].userId

(***************************************************************************)
(* C3.  In every stored context, every assistant message is immediately    *)
(* preceded by the user message of the same turn, unless that user message *)
(* is no longer in the context (windowing dropped it).                     *)
(***************************************************************************)
C3_AssistantFollowsItsUserMessage ==
    \A u \in DOMAIN conversationContexts :
        LET msgs == conversationContexts[u].messages IN
        \A k \in 1..Len(msgs) :
            msgs[k].role = "assistant" =>
                \/ k > 1 /\ msgs[k - 1].role = "user" /\ msgs[k - 1].turn = msgs[k].turn
                \/ ~ \E j \in 1..Len(msgs) :
                        msgs[j].role = "user" /\ msgs[j].turn = msgs[k].turn

(***************************************************************************)
(* C4.  A turn whose adapter call failed still ends with a reply on the    *)
(* channel the caller asked for.  Non-streaming: the events are            *)
(* typing(true), typing(false) and one 'response' carrying the non-empty   *)
(* fallback text.  Streaming: the fallback text arrives as one or more     *)
(* 'stream-chunk' events (the last chunks of the turn) followed by         *)
(* 'stream-end'.  A failed turn is never stuck (it waits only for a timer) *)
(* and no turn ever emits 'error' or 'stream-error'.                       *)
(***************************************************************************)
IsErrorEvent(e) == e.type \in {"error", "stream-error"}

IsResponse(e) == e.type = "response"

IsStreamEnd(e) == e.type = "stream-end"

\* Some tail of the chunk sequence spells exactly `text`.
ChunkTailSpells(chunks, text) ==
    \E k \in 1..Len(chunks) : ConcatContents(SubSeq(chunks, k, Len(chunks))) = text

\* The last chunk precedes the one stream-end.
ChunksThenStreamEnd(events) ==
    /\ Len(SelectSeq(events, IsStreamEnd)) = 1
    /\ \A j, k \in 1..Len(events) :
         (IsChunk(events[j]) /\ IsStreamEnd(events[k])) => j < k

C4_FailedTurnStillReplies ==
    \A s \in Slots :
        LET t == turns[s]
            fallback == processMockResponse(t.content)
        IN  /\ SelectSeq(t.events, IsErrorEvent) = <<>>
            /\ t.failed => /\ t.pc \in {"mockDelay", "simulateStreaming", "done"}
                           /\ fallback # <<>>
            /\ (t.failed /\ t.pc = "done" /\ ~t.streaming) =>
                   /\ SelectSeq(t.events, IsResponse) = <<Response(fallback, t.id)>>
                   /\ ChunksOf(t.events) = <<>>
            /\ (t.failed /\ t.pc = "done" /\ t.streaming) =>
                   /\ ChunkTailSpells(ChunksOf(t.events), fallback)
                   /\ ChunksThenStreamEnd(t.events)
                   /\ SelectSeq(t.events, IsResponse) = <<>>

\* A streaming turn failed after the adapter had delivered text, and finished;
\* and a non-streaming turn failed and finished.
C4_Witness ==
    /\ \E s \in Slots :
         /\ turns[s].pc = "done" /\ turns[s].failed /\ turns[s].streaming
         /\ turns[s].accumulatedResponse # <<>>
    /\ \E s \in Slots :
         turns[s].pc = "done" /\ turns[s].failed /\ ~turns[s].streaming

(***************************************************************************)
(* C5.  With a model family without native streaming (Llama, Titan), a     *)
(* streaming turn that completes from the adapter's reply has delivered    *)
(* one or more chunks whose concatenation is the full generated text.      *)
(***************************************************************************)
C5_PseudoStreamingDeliversChunks ==
    \A s \in Slots :
        LET t == turns[s] IN
        (/\ t.pc = "done" /\ t.streaming /\ ~t.failed /\ useBedrockService
         /\ modelFamily(modelId) \in {"llama", "titan"}) =>
            /\ ChunksOf(t.events) # <<>>
            /\ ConcatContents(ChunksOf(t.events)) = t.accumulatedContent

(***************************************************************************)
(* C6.  When a streaming turn reaches the adapter's terminal signal, the   *)
(* assistant message it appends to the context has as content the full     *)
(* text the adapter generated in that turn, for every model family.        *)
(***************************************************************************)
C6_StreamedReplyStoredInFull ==
    [][\A s \in Slots :
          (turns[s].streaming /\ AppendsAssistant(s)) =>
              LET msgs == conversationContexts'[turns[s].userId].messages IN
              msgs[Len(msgs)].content = turns'[s].accumulatedContent]_vars

(***************************************************************************)
(* C7.  Once the client's socket has closed, a streaming turn in progress  *)
(* for that client appends no assistant message to the user's context.    *)
(***************************************************************************)
C7_NoAppendAfterDisconnect ==
    [][\A s \in Slots :
          (/\ Active(s) /\ turns[s].streaming
           /\ sockets[turns[s].client] = "closed") => ~AppendsAssistant(s)]_vars

(***************************************************************************)
(* C8.  Once the client's socket has closed, the chunk callback of a       *)
(* streaming turn in progress for that client is not invoked again: the    *)
(* turn emits no further 'stream-chunk'.                                   *)
(***************************************************************************)
C8_NoChunkAfterDisconnect ==
    [][\A s \in Slots :
          (/\ Active(s) /\ turns[s].streaming
           /\ sockets[turns[s].client] = "closed"
           /\ turns'[s].id = turns[s].id) =>
              ChunksOf(turns'[s].events) = ChunksOf(turns[s].events)]_vars

(***************************************************************************)
(* C9.  A streaming turn whose adapter call failed after chunks had been   *)
(* delivered appends no assistant message to the context.                  *)
(***************************************************************************)
C9_FailedStreamAppendsNothing ==
    \A s \in Slots :
        (/\ turns[s].streaming /\ turns[s].failed
         /\ turns[s].accumulatedResponse # <<>>) => ~HasAssistantOf(turns[s].id)

(***************************************************************************)
(* C10.  When the adapter fails after chunks were delivered, the fallback  *)
(* text is not emitted as further chunks of the message that carried the   *)
(* partial content: the chunks with that messageId spell the partial       *)
(* content and nothing more.                                               *)
(***************************************************************************)
C10_FallbackIsAFreshReply ==
    \A s \in Slots :
        LET t == turns[s]
            sameMessage(e) == IsChunk(e) /\ e.messageId = t.id
        IN  (t.streaming /\ t.failed /\ t.accumulatedResponse # <<>>) =>
                ConcatContents(SelectSeq(t.events, sameMessage)) = t.accumulatedResponse

(***************************************************************************)
(* C11.  In every non-streaming turn the events are typing(true), then     *)
(* exactly one 'response', then typing(false): the full content is         *)
(* emitted before typing(false), never after it.                           *)
(***************************************************************************)
IsTypingOff(e) == e.type = "typing" /\ ~e.isTyping

IsTypingOn(e) == e.type = "typing" /\ e.isTyping

C11_ResponseBeforeTypingOff ==
    \A s \in Slots :
        LET t == turns[s] IN
        (t.pc = "done" /\ ~t.streaming) =>
            /\ Len(t.events) > 0 /\ IsTypingOn(t.events[1])
            /\ Len(SelectSeq(t.events, IsResponse)) = 1
            /\ \A j, k \in 1..Len(t.events) :
                 (IsResponse(t.events[j]) /\ IsTypingOff(t.events[k])) => j < k

(***************************************************************************)
(* C12.  In every streaming turn every 'stream-chunk' comes after          *)
(* typing(true), and typing(false) comes after the last chunk and before   *)
(* the terminal event ('stream-end' or 'stream-error').                    *)
(***************************************************************************)
IsTerminal(e) == e.type \in {"stream-end", "stream-error"}

C12_TypingOffBeforeTerminal ==
    \A s \in Slots :
        LET t == turns[s] IN
        (t.pc = "done" /\ t.streaming) =>
            /\ Len(t.events) > 0 /\ IsTypingOn(t.events[1])
            /\ \A j, k \in 1..Len(t.events) :
                 /\ (IsChunk(t.events[j]) /\ IsTypingOff(t.events[k])) => j < k
                 /\ (IsTypingOff(t.events[j]) /\ IsTerminal(t.events[k])) => j < k

(***************************************************************************)
(* C13.  Every turn that emits typing(true) eventually emits               *)
(* typing(false), exactly once, whether the adapter succeeds or fails,     *)
(* provided each adapter call eventually returns or fails: a turn has      *)
(* emitted typing(true) once as soon as it has started, no typing(false)   *)
(* while it is in progress and exactly one when it has ended, and every    *)
(* turn in progress ends.                                                  *)
(***************************************************************************)
TypingBalanced(s) ==
    LET t == turns[s] IN
    /\ Len(SelectSeq(t.events, IsTypingOn)) = (IF t.pc = "idle" THEN 0 ELSE 1)
    /\ Len(SelectSeq(t.events, IsTypingOff)) = (IF t.pc = "done" THEN 1 ELSE 0)

C13_TypingEventuallyOffOnce ==
    /\ [](\A s \in Slots : TypingBalanced(s))
    /\ \A s \in Slots : Active(s) ~> (turns[s].pc = "done")

\* A turn ended from the adapter's reply and a turn ended after the adapter
\* failed, each with its one typing(false).
C13_Witness ==
    /\ \E s \in Slots :
         /\ turns[s].pc = "done" /\ ~turns[s].failed /\ useBedrockService
         /\ Len(SelectSeq(turns[s].events, IsTypingOff)) = 1
    /\ \E s \in Slots :
         /\ turns[s].pc = "done" /\ turns[s].failed
         /\ Len(SelectSeq(turns[s].events, IsTypingOff)) = 1

(***************************************************************************)
(* C14.  Turns of different users do not interfere.  A step changes the    *)
(* stored context of at most one user, and a step of a turn changes only   *)
(* the context of that turn's user; a stored context is filed under its    *)
(* own user id and holds only messages of that user's turns; the list sent *)
(* to the adapter in a turn holds only the system prompt and messages of   *)
(* turns of the same user.                                                 *)
(***************************************************************************)
ContextChanges(u) ==
    \/ (u \in DOMAIN conversationContexts) # (u \in DOMAIN conversationContexts')
    \/ /\ u \in DOMAIN conversationContexts
       /\ u \in DOMAIN conversationContexts'
       /\ conversationContexts[u] # conversationContexts'[u]

\* The message was appended by a turn of another user than u.
ForeignTo(msg, u) ==
    \E s \in Slots :
        turns[s].pc # "idle" /\ turns[s].userId # u /\ turns[s].id = msg.turn

OwnMessagesOnly(msgs, u) ==
    \A k \in 1..Len(msgs) : ~ForeignTo(msgs[k], u)

C14_UsersDoNotInterfere ==
    /\ [][\A u \in Users :
            ContextChanges(u) =>
                /\ \A v \in Users \ {u} : ~ContextChanges(v)
                /\ \A s \in Slots : turns'[s] # turns[s] => turns'[s].userId = u]_vars
    /\ [](\A u \in DOMAIN conversationContexts :
            /\ conversationContexts[u].userId = u
            /\ OwnMessagesOnly(conversationContexts[u].messages, u))
    /\ [](\A s \in Slots :
            /\ OwnMessagesOnly(turns[s].messagesWithSystem, turns[s].userId)
            /\ \A k \in 1..Len(turns[s].messagesWithSystem) :
                 LET msg == turns[s].messagesWithSystem[k] IN
                 msg.role = "system" => (k = 1 /\ msg.content = systemPrompt))

\* Both users have a context with a reply, each from a finished turn of its own.
C14_Witness ==
    \E s1, s2 \in Slots :
        /\ turns[s1].pc = "done" /\ turns[s2].pc = "done"
        /\ turns[s1].userId = "u1" /\ turns[s2].userId = "u2"
        /\ HasAssistantOf(turns[s1].id) /\ HasAssistantOf(turns[s2].id)
        /\ DOMAIN conversationContexts = Users

(***************************************************************************)
(* C15.  When a turn of a user completes with a reply the adapter          *)
(* generated, and no clear-context for the user was requested during the   *)
(* turn, the stored context of the user holds at the completion the user   *)
(* message of the turn followed by its assistant reply: a sweep while the  *)
(* turn waits for the adapter does not lose the turn's messages.           *)
(***************************************************************************)
\* The turn in slot s ends in this step with the adapter's reply.
CompletesFromAdapter(s) ==
    /\ turns[s].pc = "awaitGenerate"
    /\ turns'[s].pc = "done"
    /\ ~turns'[s].failed

\* The map m holds for user u the user message of turn id, then its reply.
HoldsTurn(m, u, id) ==
    /\ u \in DOMAIN m
    /\ \E k \in 1..(Len(m[u].messages) - 1) :
         /\ m[u].messages[k].role = "user" /\ m[u].messages[k].turn = id
         /\ m[u].messages[k + 1].role = "assistant"
         /\ m[u].messages[k + 1].turn = id

C15_SweepKeepsTurnInFlight ==
    [][\A s \in Slots :
          CompletesFromAdapter(s) =>
              HoldsTurn(conversationContexts', turns[s].userId, turns[s].id)]_vars

(***************************************************************************)
(* C16.  After the first turn of a user a context exists for that user     *)
(* (getUserContextInfo reports messageCount >= 1 and a lastActivity that   *)
(* is not null) until it is cleared or swept, whether the adapter is       *)
(* enabled or disabled and whether its call succeeded or fell back.        *)
(* Stated for runs without clear-context and without sweeps.               *)
(***************************************************************************)
C16_ContextExistsAfterFirstTurn ==
    \A s \in Slots :
        turns[s].pc = "done" =>
            LET info == getUserContextInfo(conversationContexts, turns[s].userId)
            IN  info.messageCount >= 1 /\ info.lastActivity # -1

(***************************************************************************)
(* C17.  In every reachable state, turns in flight included,               *)
(* clearUserContext(userId) immediately followed by                        *)
(* getUserContextInfo(userId) returns messageCount 0 and lastActivity      *)
(* null; the contexts of the other users are as they were, and clearing a  *)
(* user without a context changes nothing.                                 *)
(***************************************************************************)
NoContextInfo == [messageCount |-> 0, lastActivity |-> -1]

C17_ClearThenInfoIsEmpty ==
    /\ [](\A u \in Users :
            LET cleared == clearUserContext(conversationContexts, u) IN
            /\ getUserContextInfo(cleared, u) = NoContextInfo
            /\ \A v \in Users \ {u} :
                 getUserContextInfo(cleared, v)
                     = getUserContextInfo(conversationContexts, v)
            /\ u \notin DOMAIN conversationContexts => cleared = conversationContexts)
    /\ [][(turns' = turns /\ conversationContexts' # conversationContexts) =>
            \E u \in DOMAIN conversationContexts :
                /\ conversationContexts' = clearUserContext(conversationContexts, u)
                /\ getUserContextInfo(conversationContexts', u) = NoContextInfo]_vars

\* A clear-context has removed the context of a user while a turn of that user
\* waits for the adapter (the turn created the context when it started).
C17_Witness ==
    \E s \in Slots :
        /\ AwaitsAdapter(s)
        /\ turns[s].userId \notin DOMAIN conversationContexts
        /\ getUserContextInfo(conversationContexts, turns[s].userId) = NoContextInfo

(***************************************************************************)
(* C18.  cleanupOldContexts(0) removes every context, in any reachable     *)
(* state, including a context whose lastActivity equals the time of the    *)
(* sweep.                                                                  *)
(***************************************************************************)
C18_SweepZeroRemovesAll ==
    lastCleanup.maxAgeHours = 0 => lastCleanup.after = << >>

(***************************************************************************)
(* C19.  cleanupOldContexts(maxAgeHours) deletes exactly the contexts      *)
(* whose lastActivity is older than the time of the call minus             *)
(* maxAgeHours and leaves every other context unchanged; with a maximum    *)
(* age larger than the age of every context it removes none.               *)
(***************************************************************************)
\* The age of context u of map m at time t, in milliseconds.
AgeAt(m, u, t) == t - m[u].lastActivity

C19_SweepDeletesExactlyTheOld ==
    /\ [](lastCleanup # NoCleanup =>
            LET call == lastCleanup
                maxAge == call.maxAgeHours * msPerHour
            IN  /\ DOMAIN call.after =
                       {u \in DOMAIN call.before : AgeAt(call.before, u, call.at) <= maxAge}
                /\ \A u \in DOMAIN call.after : call.after[u] = call.before[u]
                /\ (\A u \in DOMAIN call.before : AgeAt(call.before, u, call.at) < maxAge)
                       => call.after = call.before)
    /\ [][lastCleanup' # lastCleanup =>
            /\ lastCleanup'.before = conversationContexts
            /\ lastCleanup'.after = conversationContexts'
            /\ lastCleanup'.at = now']_vars

\* One call removed a context that was older than the maximum age and kept one
\* that was exactly as old as the maximum age; another removed none.
C19_Witness ==
    /\ lastCleanup # NoCleanup
    /\ \E u, v \in DOMAIN lastCleanup.before :
         /\ u \notin DOMAIN lastCleanup.after
         /\ v \in DOMAIN lastCleanup.after
         /\ AgeAt(lastCleanup.before, v, lastCleanup.at)
                = lastCleanup.maxAgeHours * msPerHour
         /\ lastCleanup.maxAgeHours > 0

(***************************************************************************)
(* C20.  Once the gateway is initialised the sweeper fires on every        *)
(* interval tick and calls cleanupOldContexts(24): time reaches every tick *)
(* of the model, each tick is one such call and leaves the turns in        *)
(* progress as they are; no stored context is ever more than 24 hours      *)
(* past its lastActivity, and a context whose lastActivity stops changing  *)
(* is eventually removed.                                                  *)
(***************************************************************************)
\* Times of last activity early enough for the model to run 25 hours on.
EarlyTimes == {n * msPerHour : n \in 0..(MaxTicks - cleanupMaxAgeHours - 1)}

\* The store holds for u the context object oid, last active at time a.
Inactive(u, oid, a) ==
    /\ u \in DOMAIN conversationContexts
    /\ conversationContexts[u].oid = oid
    /\ conversationContexts[u].lastActivity = a

C20_SweeperRemovesInactive ==
    /\ <>(now = MaxTicks * msPerHour)
    /\ [][now' # now =>
            /\ now' = now + cleanupIntervalHours * msPerHour
            /\ lastCleanup' =
                   cleanupRecord(conversationContexts, cleanupMaxAgeHours, now')
            /\ conversationContexts' = lastCleanup'.after
            /\ turns' = turns]_vars
    /\ [](\A u \in DOMAIN conversationContexts :
            now - conversationContexts[u].lastActivity
                <= cleanupMaxAgeHours * msPerHour)
    /\ \A oid \in 1..MaxSweepTurns, a \in EarlyTimes :
         Inactive(SeqUser, oid, a) ~> ~Inactive(SeqUser, oid, a)

\* A tick has removed a context inactive for more than 24 hours while a turn
\* was waiting for the adapter, and the turn is still waiting.
C20_Witness ==
    /\ lastCleanup.maxAgeHours = cleanupMaxAgeHours
    /\ \E u \in DOMAIN lastCleanup.before :
         /\ u \notin DOMAIN lastCleanup.after
         /\ lastCleanup.at - lastCleanup.before[u].lastActivity
                > cleanupMaxAgeHours * msPerHour
    /\ \E s \in Slots : AwaitsAdapter(s)

(***************************************************************************)
(* C21.  For every context, from its creation until it is cleared or       *)
(* swept, lastActivity never decreases, and every turn that completes      *)
(* with a reply the adapter generated sets it to the time of the           *)
(* completion, which is not earlier than the start of the turn (the clock  *)
(* never goes back).                                                       *)
(***************************************************************************)
\* The context object of user u is kept by this step.
SameContext(u) ==
    /\ u \in DOMAIN conversationContexts
    /\ u \in DOMAIN conversationContexts'
    /\ conversationContexts'[u].oid = conversationContexts[u].oid

\* The turn in slot s ends in this step, having received text the adapter
\* generated, and the context object it took is still the stored one.
EndsWithAdapterReply(s) ==
    /\ turns[s].pc # "done" /\ turns'[s].pc = "done"
    /\ ~turns'[s].failed
    /\ turns'[s].accumulatedContent # <<>>
    /\ turns[s].userId \in DOMAIN conversationContexts'
    /\ conversationContexts'[turns[s].userId].oid = turns[s].ctx

C21_LastActivityNeverDecreases ==
    [][/\ now' >= now
       /\ \A u \in Users :
            SameContext(u) =>
                conversationContexts'[u].lastActivity
                    >= conversationContexts[u].lastActivity
       /\ \A s \in Slots :
            EndsWithAdapterReply(s) =>
                conversationContexts'[turns[s].userId].lastActivity
                    >= turns[s].startedAt]_vars

(***************************************************************************)
(* C22.  On every turn the message list handed to the adapter contains     *)
(* exactly one system message, at position 0; every stored context         *)
(* contains at most one system message, and if it has one it is at         *)
(* position 0.                                                             *)
(***************************************************************************)
SystemCount(msgs) == Len(SelectSeq(msgs, IsSystem))

\* The turn in slot s has called the adapter (or is about to, in the same run
\* of its handler).
HandedToAdapter(s) == turns[s].pc # "idle" /\ useBedrockService

C22_OneSystemMessageFirst ==
    /\ \A s \in Slots :
         HandedToAdapter(s) =>
             /\ SystemCount(turns[s].messagesWithSystem) = 1
             /\ IsSystem(turns[s].messagesWithSystem[1])
    /\ \A u \in DOMAIN conversationContexts :
         LET msgs == conversationContexts[u].messages IN
         /\ SystemCount(msgs) <= 1
         /\ SystemCount(msgs) = 1 => IsSystem(msgs[1])

\* A second turn of a user waits for the adapter with the earlier exchange in
\* its list, after the system prompt.
C22_Witness ==
    \E s \in Slots :
        /\ AwaitsAdapter(s)
        /\ Len(turns[s].messagesWithSystem) >= 4
        /\ IsSystem(turns[s].messagesWithSystem[1])
        /\ turns[s].messagesWithSystem[2].role = "user"

(***************************************************************************)
(* C23.  System-prompt injection is idempotent: for every message          *)
(* sequence m, addSystemPrompt(addSystemPrompt(m)) equals                  *)
(* addSystemPrompt(m), and a sequence that already has a system message    *)
(* is returned unchanged.                                                  *)
(***************************************************************************)
C23_InjectionIdempotent ==
    lastCall.op = "addSystemPrompt" =>
        /\ addSystemPrompt(lastCall.result) = lastCall.result
        /\ SystemCount(lastCall.arg) > 0 => lastCall.result = lastCall.arg
        /\ SystemCount(lastCall.arg) = 0 =>
               /\ Len(lastCall.result) = Len(lastCall.arg) + 1
               /\ IsSystem(lastCall.result[1])
               /\ Tail(lastCall.result) = lastCall.arg

\* The prompt was injected in front of a list of several messages.
C23_Witness ==
    /\ lastCall.op = "addSystemPrompt"
    /\ SystemCount(lastCall.arg) = 0
    /\ Len(lastCall.arg) >= 3
    /\ SystemCount(lastCall.result) = 1

(***************************************************************************)
(* C24.  When windowing trims a context whose non-system message count     *)
(* exceeds W (10), the result is all system messages unchanged followed    *)
(* by exactly the last W non-system messages in their original relative    *)
(* order (the oldest are dropped); a context within the limit is left      *)
(* unchanged.                                                              *)
(***************************************************************************)
C24_WindowKeepsLastW ==
    lastCall.op = "maintainContextWindow" =>
        LET system == SelectSeq(lastCall.arg, IsSystem)
            others == NonSystem(lastCall.arg)
            n == Len(others)
        IN  IF n > maxContextMessages
            THEN /\ SelectSeq(lastCall.result, IsSystem) = system
                 /\ NonSystem(lastCall.result)
                        = [k \in 1..maxContextMessages |->
                               others[n - maxContextMessages + k]]
                 /\ lastCall.result = system \o NonSystem(lastCall.result)
            ELSE lastCall.result = lastCall.arg

\* A list of a system message and twelve others was trimmed to eleven.
C24_Witness ==
    /\ lastCall.op = "maintainContextWindow"
    /\ SystemCount(lastCall.arg) = 1
    /\ Len(NonSystem(lastCall.arg)) = 12
    /\ Len(lastCall.result) = 11

(***************************************************************************)
(* C25.  Windowing is idempotent: for every message sequence, applying     *)
(* maintainContextWindow twice yields the same sequence as applying it     *)
(* once.                                                                   *)
(***************************************************************************)
C25_WindowIdempotent ==
    lastCall.op = "maintainContextWindow" =>
        maintainContextWindow(lastCall.result) = lastCall.result

\* A list of eleven messages was trimmed, and a list of ten is what a second
\* application sees.
C25_Witness ==
    /\ lastCall.op = "maintainContextWindow"
    /\ Len(lastCall.arg) = 11
    /\ Len(lastCall.result) = 10
    /\ lastCall.result # lastCall.arg

(***************************************************************************)
(* C26.  Pseudo-streaming with chunk width 3 splits the text at single     *)
(* spaces into consecutive groups of 3 words, emits the groups in order,   *)
(* ends every chunk except the last with one trailing space, and the       *)
(* concatenation of all emitted chunks equals the input text ("alpha beta  *)
(* gamma delta" yields "alpha beta gamma " then "delta").                  *)
(***************************************************************************)
RECURSIVE ConcatChunks(_)
ConcatChunks(chunks) ==
    IF Len(chunks) = 0 THEN <<>>
    ELSE Head(chunks) \o ConcatChunks(Tail(chunks))

\* The k-th group of chunkSize consecutive words, joined by single spaces.
WordGroup(words, k) ==
    join(SubSeq(words, chunkSize * (k - 1) + 1,
                IF chunkSize * k < Len(words) THEN chunkSize * k ELSE Len(words)))

C26_ChunksOfThreeWords ==
    lastCall.op = "simulateStreaming" =>
        LET words == split(lastCall.arg)
            chunks == lastCall.result
            n == Len(chunks)
        IN  /\ n = (Len(words) + chunkSize - 1) \div chunkSize
            /\ \A k \in 1..n :
                   chunks[k] = IF k < n THEN WordGroup(words, k) \o <<SP>>
                                        ELSE WordGroup(words, k)
            /\ ConcatChunks(chunks) = lastCall.arg
            /\ lastCall.arg = AlphaBetaGammaDelta =>
                   chunks = << <<"a", "l", "p", "h", "a", " ", "b", "e", "t", "a", " ",
                                 "g", "a", "m", "m", "a", " ">>,
                               <<"d", "e", "l", "t", "a">> >>

\* "alpha beta gamma delta" was streamed in two chunks.
C26_Witness ==
    /\ lastCall.op = "simulateStreaming"
    /\ lastCall.arg = AlphaBetaGammaDelta
    /\ Len(lastCall.result) = 2
    /\ lastCall.result[2] = <<"d", "e", "l", "t", "a">>

(***************************************************************************)
(* C27.  The fallback responder classifies the lower-cased user text by    *)
(* substring match against the keyword sets in the fixed order code,       *)
(* explanation, analysis, general, and the first matching category wins:   *)
(* a text containing a code keyword always gets the code response even if  *)
(* it also contains explanation or analysis keywords, and a text matching  *)
(* no keyword gets the general response.                                   *)
(***************************************************************************)
\* Some keyword of the list occurs in the lower-cased text.
Mentions(text, keywords) ==
    \E k \in 1..Len(keywords) :
        \E j \in 1..Len(text) :
            /\ j + Len(keywords[k]) - 1 <= Len(text)
            /\ \A d \in 1..Len(keywords[k]) :
                   toLowerCase(text)[j + d - 1] = keywords[k][d]

C27_FirstCategoryWins ==
    lastCall.op = "processMockResponse" =>
        LET text == lastCall.arg IN
        /\ Mentions(text, codeKeywords) =>
               lastCall.result = generateCodeResponse(text)
        /\ (~Mentions(text, codeKeywords) /\ Mentions(text, explanationKeywords)) =>
               lastCall.result = generateExplanationResponse(text)
        /\ (/\ ~Mentions(text, codeKeywords)
            /\ ~Mentions(text, explanationKeywords)
            /\ Mentions(text, analysisKeywords)) =>
               lastCall.result = generateAnalysisResponse(text)
        /\ (/\ ~Mentions(text, codeKeywords)
            /\ ~Mentions(text, explanationKeywords)
            /\ ~Mentions(text, analysisKeywords)) =>
               lastCall.result = generateGeneralResponse(text)

\* "WHY review Rust" holds a keyword of each set and got the code response.
C27_Witness ==
    /\ lastCall.op = "processMockResponse"
    /\ lastCall.arg = <<"W", "H", "Y", " ", "r", "e", "v", "i", "e", "w", " ",
                        "R", "u", "s", "t">>
    /\ lastCall.result = generateCodeResponse(lastCall.arg)
    /\ lastCall.result # generateExplanationResponse(lastCall.arg)

(***************************************************************************)
(* C28.  The fallback responder is deterministic: two calls with the same  *)
(* user text always select the same category and return the same response  *)
(* text, independent of the contents of the context store and of earlier   *)
(* calls.                                                                  *)
(***************************************************************************)
\* A finished turn answered by processMockResponse alone: the adapter was
\* disabled or failed before it delivered any text.
AnsweredByFallback(t) ==
    /\ t.pc = "done"
    /\ ~useBedrockService \/ t.failed
    /\ t.accumulatedResponse = <<>>

\* The text the client received from the turn.
ReceivedText(t) ==
    IF t.streaming THEN ConcatContents(ChunksOf(t.events))
    ELSE t.events[Len(t.events)].content

ModelIdHas(part) == \E k \in DOMAIN modelId : modelId[k] = part

C29_ProviderByFirstMatch ==
    \A s \in Slots :
        LET t == turns[s] IN
        (t.pc # "idle" /\ useBedrockService) =>
            /\ ModelIdHas("anthropic.claude") =>
                   t.invoked = IF t.streaming THEN "invokeClaudeModelStream"
                               ELSE "invokeClaudeModel"
            /\ (~ModelIdHas("anthropic.claude") /\ ModelIdHas("meta.llama")) =>
                   t.invoked = "invokeLlamaModel"
            /\ (/\ ~ModelIdHas("anthropic.claude")
                /\ ~ModelIdHas("meta.llama")
                /\ ModelIdHas("amazon.titan")) =>
                   t.invoked = "invokeTitanModel"
            /\ (/\ ~ModelIdHas("anthropic.claude")
                /\ ~ModelIdHas("meta.llama")
                /\ ~ModelIdHas("amazon.titan")) =>
                   /\ t.invoked = "none"
                   /\ t.failed
                   /\ ~AwaitsAdapter(s)
                   /\ t.accumulatedContent = <<>>
                   /\ t.frames = 0
            /\ AwaitsAdapter(s) => t.invoked # "none"

\* A streaming turn and a non-streaming turn under an identifier that matches
\* no provider have both failed over to the fallback and finished.
C29_Witness ==
    /\ modelId = <<"cohere.command">>
    /\ turns[1].pc = "done" /\ turns[2].pc = "done"
    /\ turns[1].streaming /\ ~turns[2].streaming
    /\ turns[1].failed /\ turns[2].failed
    /\ turns[1].invoked = "none" /\ turns[2].invoked = "none"

(***************************************************************************)
(* C30.  A message whose content is empty or longer than 5000 characters   *)
(* is rejected before the turn starts: it emits no typing event, does not  *)
(* create or change any context and never invokes the adapter or the       *)
(* fallback responder.                                                     *)
(***************************************************************************)
WithinLimits(content) == Len(content) \in 1..5000

\* The message the pipe has just rejected, if this step is a rejection.
Rejected == lastCall'.op = "ValidationPipe" /\ lastCall' # lastCall

C30_InvalidContentRejected ==
    /\ [](\A s \in Slots : turns[s].pc # "idle" => WithinLimits(turns[s].content))
    /\ [](\A u \in DOMAIN conversationContexts :
              \A k \in 1..Len(conversationContexts[u].messages) :
                  conversationContexts[u].messages[k].role = "user" =>
                      WithinLimits(conversationContexts[u].messages[k].content))
    /\ [](lastCall.op = "ValidationPipe" => ~WithinLimits(lastCall.arg))
    /\ [][Rejected => /\ turns' = turns
                      /\ conversationContexts' = conversationContexts
                      /\ nextTurn' = nextTurn]_vars
    /\ [][(nextTurn' # nextTurn) =>
              \E s \in Slots : /\ turns'[s].id = nextTurn'
                               /\ WithinLimits(turns'[s].content)]_vars

\* A message of 5001 characters was rejected while a turn waited for the
\* adapter: the turn and its context are as they were.
C30_Witness ==
    /\ lastCall.op = "ValidationPipe"
    /\ Len(lastCall.arg) = 5001
    /\ \E s \in Slots : AwaitsAdapter(s)
    /\ nextTurn = 1
    /\ DOMAIN conversationContexts = {"u1"}
    /\ Len(conversationContexts["u1"].messages) = 1

(***************************************************************************)
(* C31.  On every turn, the non-system messages handed to the adapter      *)
(* start with a user message, strictly alternate between user and          *)
(* assistant roles, and end with a user message, after any sequence of     *)
(* earlier turns (including turns that fell back after an adapter failure  *)
(* and turns after which windowing trimmed the context).                   *)
(***************************************************************************)
Alternates(msgs) ==
    /\ Len(msgs) > 0
    /\ msgs[1].role = "user"
    /\ msgs[Len(msgs)].role = "user"
    /\ \A k \in 1..(Len(msgs) - 1) : msgs[k].role # msgs[k + 1].role

C31_RolesAlternate ==
    \A s \in Slots :
        HandedToAdapter(s) => Alternates(NonSystem(turns[s].messagesWithSystem))

(***************************************************************************)
(* C32.  On every turn, under any interleaving of turns, the last message  *)
(* of the list handed to the adapter is the user message of that same      *)
(* turn, and the list is a snapshot that later appends to the context do   *)
(* not change.                                                             *)
(***************************************************************************)
LastOf(msgs) == msgs[Len(msgs)]

\* The turn in slot s is the same handler invocation before and after the step.
SameTurn(s) == turns[s].pc # "idle" /\ turns'[s].id = turns[s].id

C32_ListEndsWithOwnUserMessage ==
    /\ [](\A s \in Slots :
            HandedToAdapter(s) =>
                /\ Len(turns[s].messagesWithSystem) >= 2
                /\ LastOf(turns[s].messagesWithSystem)
                       = Msg("user", turns[s].content, turns[s].id))
    \* addSystemPrompt returns the stored array itself when it holds a system
    \* message; no stored list does, so the list handed over is a new array.
    /\ [](\A u \in DOMAIN conversationContexts :
            SystemCount(conversationContexts[u].messages) = 0)
    /\ [][\A s \in Slots :
            SameTurn(s) =>
                turns'[s].messagesWithSystem = turns[s].messagesWithSystem]_vars

\* A turn waits for the adapter with a list that ends with its own message,
\* while its context has since received the message of a later turn.
C32_Witness ==
    \E s \in Slots :
        LET t == turns[s] IN
        /\ AwaitsAdapter(s)
        /\ t.userId \in DOMAIN conversationContexts
        /\ conversationContexts[t.userId].oid = t.ctx
        /\ Len(conversationContexts[t.userId].messages)
               > Len(t.messagesWithSystem) - 1
        /\ LastOf(conversationContexts[t.userId].messages).turn # t.id
        /\ LastOf(t.messagesWithSystem).turn = t.id

(***************************************************************************)
(* C33.  Context history is append-only: at every moment the message       *)
(* sequence of a stored context is a contiguous suffix of the sequence of  *)
(* all messages appended to that context since its creation, in append     *)
(* order; no operation reorders, edits or removes a message other than     *)
(* dropping the oldest ones.  Step by step: the list after a step is the   *)
(* list before it, with at most one message appended at the end and, only  *)
(* when that exceeds the window, the oldest ones dropped; a new context    *)
(* starts with at most one message.                                        *)
(***************************************************************************)
DropsOldestAppendsNewest(old, new) ==
    \E d \in 0..Len(old) :
        LET kept == SubSeq(old, d + 1, Len(old)) IN
        /\ Len(new) \in {Len(kept), Len(kept) + 1}
        /\ SubSeq(new, 1, Len(kept)) = kept
        /\ d > 0 => Len(old) + 1 > maxContextMessages

C33_AppendOnly ==
    [][\A u \in DOMAIN conversationContexts' :
        IF u \in DOMAIN conversationContexts
           /\ conversationContexts'[u].oid = conversationContexts[u].oid
        THEN DropsOldestAppendsNewest(conversationContexts[u].messages,
                                      conversationContexts'[u].messages)
        ELSE Len(conversationContexts'[u].messages) <= 1]_vars

\* The window has dropped the first turn's user message: the stored list is
\* the ten messages that followed it, in append order.
C33_Witness ==
    /\ "u1" \in DOMAIN conversationContexts
    /\ LET msgs == conversationContexts["u1"].messages IN
       /\ Len(msgs) = maxContextMessages
       /\ msgs[1] = Msg("assistant", <<"o", "k">>, 1)
       /\ msgs[Len(msgs)].turn = 6
       /\ \A k \in 1..(Len(msgs) - 1) : msgs[k].turn <= msgs[k + 1].turn

(***************************************************************************)
(* C34.  A streaming turn appends at most one assistant message to the     *)
(* context, and exactly one when the adapter's stream ends without         *)
(* failure, for every sequence of provider frames (including a stream that *)
(* ends without a terminal frame or carries more than one terminal frame). *)
(***************************************************************************)
\* The assistant messages of turn `id` in the stored list of user u.
IsAssistantOf(id, m) == m.role = "assistant" /\ m.turn = id

AssistantCount(u, id) ==
    Len(SelectSeq(conversationContexts[u].messages,
                  LAMBDA m : IsAssistantOf(id, m)))

C34_OneAssistantPerStream ==
    \A s \in Slots :
        LET t == turns[s] IN
        (/\ t.streaming
         /\ t.userId \in DOMAIN conversationContexts
         /\ conversationContexts[t.userId].oid = t.ctx) =>
            /\ AssistantCount(t.userId, t.id) <= 1
            /\ (t.pc = "done" /\ ~t.failed /\ t.frames >= 1) =>
                   AssistantCount(t.userId, t.id) = 1

(***************************************************************************)
(* C35.  Fallback text is never stored: the fallback responder and         *)
(* pseudo-streaming leave the context store unchanged, so every assistant  *)
(* message in any context comes from an adapter reply, and a turn that     *)
(* fell back leaves in the context only what was appended before the       *)
(* failure (its user message, with no assistant message).                  *)
(***************************************************************************)
\* The fallback timers of slot s: processMockResponse's delay and the delays
\* of simulateStreaming.
InFallback(s) == turns[s].pc \in {"mockDelay", "simulateStreaming"}

\* Texts the fallback responder can return for the contents sent.
FallbackTexts == {mockResponseOf[x] : x \in Contents}

C35_FallbackLeavesStoreAlone ==
    [][(\E s \in Slots : InFallback(s) /\ turns'[s] # turns[s])
           => conversationContexts' = conversationContexts]_vars

C35_AssistantFromAdapter ==
    \A u \in DOMAIN conversationContexts :
        \A k \in 1..Len(conversationContexts[u].messages) :
            conversationContexts[u].messages[k].role = "assistant" =>
                conversationContexts[u].messages[k].content \notin FallbackTexts

C35_FallbackNeverStored ==
    /\ C35_AssistantFromAdapter
    /\ \A s \in Slots : turns[s].failed => ~HasAssistantOf(turns[s].id)

(***************************************************************************)
(* C36.  For every sequence of provider frames of a Claude stream, the     *)
(* chunk callback is invoked once per text-delta frame with                *)
(* isComplete=false and that delta's text, once per terminal frame with    *)
(* isComplete=true and empty content, in frame order, and a frame of any   *)
(* other type causes no callback and no failure.                           *)
(***************************************************************************)
IsTextDeltaFrame(f) == f.bytes /\ f.type = "content_block_delta"

IsTerminalFrame(f) == f.bytes /\ f.type = "message_stop"

IsDeltaOrTerminal(f) == IsTextDeltaFrame(f) \/ IsTerminalFrame(f)

\* One callback per text-delta or terminal frame, in frame order.
CallbackPerFrame(frames, chunks) ==
    LET relevant == SelectSeq(frames, IsDeltaOrTerminal) IN
    /\ Len(chunks) = Len(relevant)
    /\ \A k \in 1..Len(relevant) :
           chunks[k] = IF IsTerminalFrame(relevant[k])
                       THEN [content |-> <<>>, isComplete |-> TRUE]
                       ELSE [content |-> relevant[k].text, isComplete |-> FALSE]

C36_CallbackPerFrame ==
    lastCall.op = "invokeClaudeModelStream" =>
        CallbackPerFrame(lastCall.arg, lastCall.result)

\* The same for the streams in which every text-delta frame carries text.
HasText(f) == IsTextDeltaFrame(f) => f.text # <<>>

C36_CallbackPerFrameWithText ==
    (/\ lastCall.op = "invokeClaudeModelStream"
     /\ \A k \in 1..Len(lastCall.arg) : HasText(lastCall.arg[k]))
        => CallbackPerFrame(lastCall.arg, lastCall.result)

(***************************************************************************)
(* C37.  For the Claude variant, the request's turn list is the input      *)
(* messages without the system message, mapped one to one in the original  *)
(* order, and the leading system message, if any, is sent only in the      *)
(* separate system field and never inside the turn list.                   *)
(***************************************************************************)
IsClaudeRequest ==
    lastCall.op \in {"invokeClaudeModel", "invokeClaudeModelStream:requestBody"}

\* Positions of the input list that hold a system message.
SystemPositions(msgs) == {k \in 1..Len(msgs) : msgs[k].role = "system"}

C37_ClaudeTurnListWithoutSystem ==
    IsClaudeRequest =>
        LET input == lastCall.arg
            request == lastCall.result
            lead == IF SystemPositions(input) = {} THEN 0 ELSE 1
        IN  /\ SystemPositions(input) \subseteq {1}
            /\ Len(request.messages) = Len(input) - lead
            /\ \A k \in 1..Len(request.messages) :
                   /\ request.messages[k].role = input[k + lead].role
                   /\ request.messages[k].content = input[k + lead].content
                   /\ request.messages[k].role # "system"
            /\ request.system = IF lead = 1 THEN <<input[1].content>> ELSE <<>>

\* A streaming request built from the system prompt and three messages: the
\* prompt is in the system field and the three messages are the turn list.
C37_Witness ==
    /\ lastCall.op = "invokeClaudeModelStream:requestBody"
    /\ Len(lastCall.arg) = 4
    /\ lastCall.arg[1].role = "system"
    /\ Len(lastCall.result.messages) = 3
    /\ lastCall.result.messages[1].role = "user"
    /\ lastCall.result.messages[2].role = "assistant"
    /\ lastCall.result.system = <<systemPrompt>>

(***************************************************************************)
(* C38.  For the Llama variant, the prompt is the in-order concatenation   *)
(* of the messages in which each user turn is wrapped in the instruction   *)
(* delimiter pair and each assistant turn is appended as plain             *)
(* continuation text, with no separator added beyond the delimiters.       *)
(***************************************************************************)
StartsWith(text, prefix) ==
    Len(text) >= Len(prefix) /\ SubSeq(text, 1, Len(prefix)) = prefix

EndsWith(text, suffix) ==
    /\ Len(text) >= Len(suffix)
    /\ SubSeq(text, Len(text) - Len(suffix) + 1, Len(text)) = suffix

\* A user turn between '[INST] ' and ' [/INST]', any other text as it is.
LlamaSegment(msg) ==
    IF msg.role = "user"
    THEN <<"[", "I", "N", "S", "T", "]", " ">> \o msg.content
             \o <<" ", "[", "/", "I", "N", "S", "T", "]">>
    ELSE msg.content

RECURSIVE ConcatSegments(_)
ConcatSegments(msgs) ==
    IF Len(msgs) = 0 THEN <<>>
    ELSE LlamaSegment(Head(msgs)) \o ConcatSegments(Tail(msgs))

\* The user and assistant turns follow the system message, if there is one.
C38_LlamaPromptConcatenation ==
    lastCall.op = "formatLlamaPrompt" =>
        /\ EndsWith(lastCall.result, ConcatSegments(NonSystem(lastCall.arg)))
        /\ SystemCount(lastCall.arg) = 0 =>
               lastCall.result = ConcatSegments(lastCall.arg)

(***************************************************************************)
(* C39.  For the Titan variant, the prompt is a transcript with one entry  *)
(* per turn, user turns prefixed 'Human:' and assistant turns prefixed     *)
(* 'Assistant:', entries joined by blank lines in the original order,      *)
(* followed by a trailing 'Assistant:' cue; only assistant turns carry the *)
(* 'Assistant:' prefix (the injected system message is not rendered as an  *)
(* assistant turn).                                                        *)
(***************************************************************************)
AssistantPrefix == <<"A", "s", "s", "i", "s", "t", "a", "n", "t", ":">>

TranscriptEntry(msg) ==
    IF msg.role = "user" THEN <<"H", "u", "m", "a", "n", ":", " ">> \o msg.content
    ELSE AssistantPrefix \o <<" ">> \o msg.content

\* The transcript of the user and assistant turns, with the trailing cue.
RECURSIVE Transcript(_)
Transcript(msgs) ==
    IF Len(msgs) = 0 THEN <<"\n", "\n">> \o AssistantPrefix
    ELSE TranscriptEntry(Head(msgs))
             \o (IF Len(msgs) = 1 THEN <<>> ELSE <<"\n", "\n">>)
             \o Transcript(Tail(msgs))

C39_TitanTranscript ==
    lastCall.op = "formatTitanPrompt" =>
        LET input == lastCall.arg IN
        /\ EndsWith(lastCall.result, Transcript(NonSystem(input)))
        /\ SystemCount(input) = 0 => lastCall.result = Transcript(input)
        /\ (Len(input) > 0 /\ input[1].role # "assistant") =>
               ~StartsWith(lastCall.result, AssistantPrefix)


\* The part of C39 about the user and assistant turns alone.
C39_TranscriptOfTurns ==
    lastCall.op = "formatTitanPrompt" =>
        /\ EndsWith(lastCall.result, Transcript(NonSystem(lastCall.arg)))
        /\ SystemCount(lastCall.arg) = 0 => lastCall.result = Transcript(lastCall.arg)

=============================================================================
